---- MODULE Spec2Model ----
(***************************************************************************)
(* A model of the udplite crate (src/udplite.rs): UdpLiteSocket::bind and  *)
(* try_bind, try_clone, the checksum-coverage setters and getters, and the *)
(* close-on-exec operations, over a model of the process's descriptor      *)
(* table and of the kernel's socket objects.                               *)
(***************************************************************************)
EXTENDS Integers, Sequences, FiniteSets, TLC

VARIABLES
    fds,      \* the process's descriptor table: descriptor number -> entry
    objs,     \* the kernel's open file descriptions (socket objects)
    sockets,  \* descriptor numbers owned by live UdpLiteSocket values
    call,     \* position of the bind call in progress (try_bind's loop)
    log,      \* the system calls made by the most recent bind call
    last      \* the most recently returned operation and its result

vars == <<fds, objs, sockets, call, log, last>>

-----------------------------------------------------------------------------
(* Bounds of the model. *)

\* descriptor numbers available to the process
MaxFd == 2
\* longest candidate sequence an address specification resolves to
MaxAddrs == 2
\* most consecutive EINTR results the OS gives one bind() loop
MaxEintr == 1

(* Program constants. *)

\* payload as c_int + 8 / coverage as u16 - 8 : the UDP-Lite header length
HeaderLen == 8
\* upper end of the accepted pattern 8..=0xffff
MaxWire == 65535
\* the descriptor number the tests adopt as an invalid descriptor
BadFd == -1

Fds == 1..MaxFd

-----------------------------------------------------------------------------
(* Values. *)

\* Option<u16>
None == [some |-> FALSE, v |-> 0]
Some(n) == [some |-> TRUE, v |-> n]

\* io::Error values
NoError == [kind |-> "", msg |-> ""]
\* io::Error::last_os_error(): the kind std derives from errno
last_os_error(errno) ==
    [kind |-> IF errno = "EINTR" THEN "Interrupted"
              ELSE IF errno = "EADDRINUSE" THEN "AddrInUse"
              ELSE IF errno = "EACCES" THEN "PermissionDenied"
              ELSE IF errno = "EAGAIN" THEN "WouldBlock"
              ELSE IF errno = "EINVAL" THEN "InvalidInput"
              ELSE "Other",
     msg |-> errno]
\* io::Error::new(kind, message)
NewError(kind, message) == [kind |-> kind, msg |-> message]

\* Result<_, io::Error>
Ok(v) == [ok |-> TRUE, val |-> v, err |-> NoError]
Err(e) == [ok |-> FALSE, val |-> None, err |-> e]

\* SocketAddr: the two variants, told apart by family and port
Addresses ==
    { [family |-> "V4", port |-> 0], [family |-> "V6", port |-> 0] }

\* rust_addr_to_sockaddr: family tag, port and the length of the structure
rust_addr_to_sockaddr(addr) ==
    IF addr.family = "V4"
    THEN [ss_family |-> "AF_INET", port |-> addr.port, len |-> "sockaddr_in"]
    ELSE [ss_family |-> "AF_INET6", port |-> addr.port, len |-> "sockaddr_in6"]

-----------------------------------------------------------------------------
(* The descriptor table and the kernel objects. *)

\* cloexec: FD_CLOEXEC; obj: the kernel object the descriptor refers to
ClosedFd == [open |-> FALSE, cloexec |-> FALSE, obj |-> 0]
\* send, recv: the coverage options as the kernel holds them
FreeObj == [kind |-> "free", nonblocking |-> FALSE, send |-> 0, recv |-> 0]

FreeFds == { f \in Fds : ~fds[f].open }
\* the kernel hands out the lowest free descriptor number
LowestFree == CHOOSE f \in FreeFds : \A g \in FreeFds : f <= g
FreeObjs == { o \in Fds : objs[o].kind = "free" }
NewObj == CHOOSE o \in FreeObjs : \A p \in FreeObjs : o <= p

\* a descriptor number that names an open descriptor
Valid(f) == f \in Fds /\ fds[f].open

\* (mutant) the descriptor is left open
CloseIn_leaking(tab, f) == tab

\* close(f): the entry goes, and the object with its last descriptor
CloseIn(tab, f) == IF f \in Fds THEN [tab EXCEPT ![f] = ClosedFd] ELSE tab
\* (mutant) the object goes with any of its descriptors
ObjsAfterClose_of_any(tab, f) ==
    IF f \in Fds /\ tab[f].open
    THEN [objs EXCEPT ![tab[f].obj] = FreeObj]
    ELSE objs
ObjsAfterClose(tab, f) ==
    IF f \in Fds /\ tab[f].open
       /\ ~(\E g \in Fds \ {f} : tab[g].open /\ tab[g].obj = tab[f].obj)
    THEN [objs EXCEPT ![tab[f].obj] = FreeObj]
    ELSE objs

Idle == [pc |-> "idle", addrs |-> <<>>, i |-> 0, error |-> NoError,
         fd |-> 0, nonblocking |-> FALSE, eintr |-> 0]
\* op, fd, arg, flag: the call; cands: the candidates a bind call resolved
\* to; ret, wire: what the option system call gave; ok, val, n, err: the result
NoResult == [op |-> "", fd |-> 0, arg |-> None, flag |-> FALSE, cands |-> 0,
             ret |-> 0, wire |-> 0,
             ok |-> TRUE, val |-> None, n |-> 0, err |-> NoError]
Returned(op, f, res) ==
    [NoResult EXCEPT !.op = op, !.fd = f, !.ok = res.ok, !.val = res.val,
                     !.err = res.err]

Init ==
    /\ fds = [f \in Fds |-> ClosedFd]
    /\ objs = [o \in Fds |-> FreeObj]
    /\ sockets = {}
    /\ call = Idle
    /\ log = <<>>
    /\ last = NoResult

-----------------------------------------------------------------------------
(* UdpLiteSocket::bind and try_bind. *)

\* what to_socket_addrs() can give: an error of the resolver, or an ordered
\* sequence of candidates
SeqsUpTo(n) == UNION { [1..k -> Addresses] : k \in 0..n }
AddrSpecs ==
    { [ok |-> FALSE, addrs |-> <<>>] }
    \cup { [ok |-> TRUE, addrs |-> s] : s \in SeqsUpTo(MaxAddrs) }
ResolveError == NewError("InvalidInput", "invalid socket address")

\* errno values socket() and bind() fail with, besides EINTR
SocketErrnos == { "EMFILE" }
BindErrnos == { "EADDRINUSE", "EACCES" }

\* (mutant) the error of the resolver stands in for it
NoAddrsError_as_resolver == NewError("InvalidInput", "invalid socket address")

\* the error bind() starts from, returned when no candidate is tried
NoAddrsError == NewError("InvalidInput", "could not resolve to any addresses")

\* (mutant) close-on-exec is not asked for at creation
SocketFlags_no_cloexec == { "SOCK_DGRAM" }

\* the type argument of socket(): SOCK_DGRAM | SOCK_CLOEXEC
SocketFlags == { "SOCK_DGRAM", "SOCK_CLOEXEC" }
\* (mutant) SOCK_NONBLOCK is left out
NonblockingFlags_blocking == { "SOCK_DGRAM", "SOCK_CLOEXEC" }

\* the non-blocking constructor asks for SOCK_NONBLOCK as well
NonblockingFlags == SocketFlags \cup { "SOCK_NONBLOCK" }

\* (mutant) every failure of bind() ends the attempt
RetryBind_never(error) == FALSE

\* `if error.kind() != Interrupted { break Err(error) }`: TRUE to loop again
RetryBind(error) == error.kind = "Interrupted"

\* (mutant) the first failure is kept
RememberError_first(old, e) ==
    IF old = NewError("InvalidInput", "could not resolve to any addresses")
    THEN e ELSE old

\* `Err(e) => error = e`: the error bind() remembers after a failed candidate
RememberError(old, e) == e

Entry(sys, cand, addr, fd, errno) ==
    [sys |-> sys, cand |-> cand, addr |-> addr, fd |-> fd, errno |-> errno]

BindResult(f, res) ==
    [Returned("bind", f, res) EXCEPT !.flag = call.nonblocking,
                                     !.cands = Len(call.addrs)]

\* bind() returns Err(e), or goes on to the next candidate
CandidateFailed(e, entries) ==
    LET err == RememberError(call.error, e) IN
    /\ log' = log \o entries
    /\ IF call.i = Len(call.addrs)
       THEN /\ call' = Idle
            /\ last' = BindResult(0, Err(err))
       ELSE /\ call' = [call EXCEPT !.pc = "socket", !.i = call.i + 1,
                                    !.error = err, !.fd = 0, !.eintr = 0]
            /\ UNCHANGED last

\* bind() up to its loop over the candidates
BindEntry(spec, nonblocking) ==
    /\ call.pc = "idle"
    /\ log' = <<>>
    /\ UNCHANGED <<fds, objs, sockets>>
    /\ IF ~spec.ok
       THEN /\ last' = [Returned("bind", 0, Err(ResolveError))
                           EXCEPT !.flag = nonblocking, !.cands = -1]
            /\ call' = Idle
       ELSE IF spec.addrs = <<>>
       THEN /\ last' = [Returned("bind", 0, Err(NoAddrsError))
                           EXCEPT !.flag = nonblocking]
            /\ call' = Idle
       ELSE /\ last' = [NoResult EXCEPT !.op = "bind called",
                                        !.flag = nonblocking,
                                        !.cands = Len(spec.addrs)]
            /\ call' = [pc |-> "socket", addrs |-> spec.addrs, i |-> 1,
                        error |-> NoAddrsError, fd |-> 0,
                        nonblocking |-> nonblocking, eintr |-> 0]

bind(spec) == BindEntry(spec, FALSE)

bind_nonblocking(spec) == BindEntry(spec, TRUE)

\* try_bind up to and including the socket() call
try_bind_socket ==
    /\ call.pc = "socket"
    /\ LET storage == rust_addr_to_sockaddr(call.addrs[call.i])
           flags == IF call.nonblocking THEN NonblockingFlags ELSE SocketFlags
       IN
       \/ \E errno \in SocketErrnos :
             /\ CandidateFailed(last_os_error(errno),
                         <<Entry("socket", call.i, storage, -1, errno)>>)
             /\ UNCHANGED <<fds, objs, sockets>>
       \/ /\ FreeFds # {}
          /\ fds' = [fds EXCEPT ![LowestFree] =
                        [open |-> TRUE, cloexec |-> "SOCK_CLOEXEC" \in flags,
                         obj |-> NewObj]]
          /\ objs' = [objs EXCEPT ![NewObj] =
                        [FreeObj EXCEPT !.kind = "udplite",
                                        !.nonblocking = "SOCK_NONBLOCK" \in flags]]
          /\ call' = [call EXCEPT !.pc = "bind", !.fd = LowestFree]
          /\ log' = log \o <<Entry("socket", call.i, storage, LowestFree, "")>>
          /\ UNCHANGED <<sockets, last>>

\* The loop of try_bind counts nothing and goes round as often as bind() is
\* interrupted. call.eintr is the number of interruptions of the current
\* candidate up to MaxEintr; from there on it is MaxEintr or MaxEintr + 1 by
\* the parity of the number, and the log, which has the first MaxEintr of
\* them, leaves out the rest.
AnotherEintr(n) == IF n <= MaxEintr THEN n + 1 ELSE MaxEintr

\* one turn of try_bind's loop: a bind() call and what follows it
try_bind_loop ==
    /\ call.pc = "bind"
    /\ LET storage == rust_addr_to_sockaddr(call.addrs[call.i]) IN
       \/ /\ sockets' = sockets \cup {call.fd}
          /\ log' = log \o <<Entry("bind", call.i, storage, call.fd, "")>>
          /\ last' = BindResult(call.fd, Ok(None))
          /\ call' = Idle
          /\ UNCHANGED <<fds, objs>>
       \/ \E errno \in BindErrnos \cup {"EINTR"} :
            LET error == last_os_error(errno) IN
            /\ IF RetryBind(error)
               THEN /\ call' = [call EXCEPT !.eintr = AnotherEintr(call.eintr)]
                    /\ log' = IF call.eintr < MaxEintr
                               THEN log \o <<Entry("bind", call.i, storage,
                                                    call.fd, errno)>>
                               ELSE log
                    /\ UNCHANGED <<fds, objs, sockets, last>>
               ELSE /\ fds' = CloseIn(fds, call.fd)
                    /\ objs' = ObjsAfterClose(fds, call.fd)
                    /\ CandidateFailed(error,
                          <<Entry("bind", call.i, storage, call.fd, errno),
                            Entry("close", call.i, storage, call.fd, "")>>)
                    /\ UNCHANGED sockets

\* a UdpLiteSocket value goes out of scope: its descriptor is closed
drop(f) ==
    /\ call.pc = "idle"
    /\ f \in sockets
    /\ sockets' = sockets \ {f}
    /\ fds' = CloseIn(fds, f)
    /\ objs' = ObjsAfterClose(fds, f)
    /\ log' = <<>>
    /\ last' = Returned("drop", f, Ok(None))
    /\ UNCHANGED call

-----------------------------------------------------------------------------
(* Descriptors that come from and go to the caller. *)

\* the caller obtains a descriptor by other means: a UDP-Lite socket or some
\* other kind of descriptor, with close-on-exec set or clear
caller_opens(kind, cloexec) ==
    /\ call.pc = "idle"
    /\ FreeFds # {}
    /\ fds' = [fds EXCEPT ![LowestFree] =
                  [open |-> TRUE, cloexec |-> cloexec, obj |-> NewObj]]
    /\ objs' = [objs EXCEPT ![NewObj] = [FreeObj EXCEPT !.kind = kind]]
    /\ log' = <<>>
    /\ last' = [Returned("caller opens", LowestFree, Ok(None))
                   EXCEPT !.flag = cloexec]
    /\ UNCHANGED <<sockets, call>>

\* FromRawFd::from_raw_fd: wraps the number it is given, valid or not
from_raw_fd(f) ==
    /\ call.pc = "idle"
    /\ f \notin sockets
    /\ f = BadFd \/ Valid(f)
    /\ sockets' = sockets \cup {f}
    /\ log' = <<>>
    /\ last' = Returned("from_raw_fd", f, Ok(None))
    /\ UNCHANGED <<fds, objs, call>>

\* AsRawFd::as_raw_fd: the number, nothing else
as_raw_fd(f) ==
    /\ call.pc = "idle"
    /\ f \in sockets
    /\ log' = <<>>
    /\ last' = [Returned("as_raw_fd", f, Ok(None)) EXCEPT !.n = f]
    /\ UNCHANGED <<fds, objs, sockets, call>>

\* (mutant) the consumed socket value closes the descriptor it gives away
into_raw_fd_closing(f) ==
    /\ call.pc = "idle"
    /\ f \in sockets
    /\ sockets' = sockets \ {f}
    /\ fds' = CloseIn(fds, f)
    /\ objs' = ObjsAfterClose(fds, f)
    /\ log' = <<>>
    /\ last' = [Returned("into_raw_fd", f, Ok(None)) EXCEPT !.n = f]
    /\ UNCHANGED call

\* IntoRawFd::into_raw_fd: the socket value is consumed without closing
into_raw_fd(f) ==
    /\ call.pc = "idle"
    /\ f \in sockets
    /\ sockets' = sockets \ {f}
    /\ log' = <<>>
    /\ last' = [Returned("into_raw_fd", f, Ok(None)) EXCEPT !.n = f]
    /\ UNCHANGED <<fds, objs, call>>

-----------------------------------------------------------------------------
(* try_clone, set_cloexec, is_cloexec. *)

\* (mutant) the duplicate takes the flag of the original
try_clone_cloexec_inherited(original) == original

\* the close-on-exec flag of the duplicate: UdpSocket::try_clone duplicates
\* with F_DUPFD_CLOEXEC, whatever the flag of the original
try_clone_cloexec(original) == TRUE

try_clone(f) ==
    /\ call.pc = "idle"
    /\ f \in sockets
    /\ log' = <<>>
    /\ UNCHANGED <<objs, call>>
    /\ IF ~Valid(f)
       THEN /\ last' = Returned("try_clone", f, Err(last_os_error("EBADF")))
            /\ UNCHANGED <<fds, sockets>>
       ELSE IF FreeFds = {}
       THEN /\ last' = Returned("try_clone", f, Err(last_os_error("EMFILE")))
            /\ UNCHANGED <<fds, sockets>>
       ELSE /\ fds' = [fds EXCEPT ![LowestFree] =
                          [open |-> TRUE,
                           cloexec |-> try_clone_cloexec(fds[f].cloexec),
                           obj |-> fds[f].obj]]
            /\ sockets' = sockets \cup {LowestFree}
            /\ last' = [Returned("try_clone", f, Ok(None))
                           EXCEPT !.n = LowestFree]

\* (mutant) the request does not depend on the argument
cloexec_op_always_set(close_on_exec) == "FIOCLEX"

\* `let op = if close_on_exec {FIOCLEX} else {FIONCLEX};`
cloexec_op(close_on_exec) == IF close_on_exec THEN "FIOCLEX" ELSE "FIONCLEX"

\* ioctl(fd, FIOCLEX | FIONCLEX): -1 for a descriptor that is not open
ioctl_ret(tab, f) == IF f \in Fds /\ tab[f].open THEN 0 ELSE -1
ioctl_table(tab, f, op) ==
    IF f \in Fds /\ tab[f].open
    THEN [tab EXCEPT ![f].cloexec = (op = "FIOCLEX")]
    ELSE tab

\* the descriptor table set_cloexec leaves
set_cloexec_table(tab, f, close_on_exec) ==
    ioctl_table(tab, f, cloexec_op(close_on_exec))
\* `match ioctl(..) { -1 => Err(last_os_error()), _ => Ok(()) }`
set_cloexec_result(tab, f, close_on_exec) ==
    IF ioctl_ret(tab, f) = -1 THEN Err(last_os_error("EBADF")) ELSE Ok(None)

set_cloexec(f, close_on_exec) ==
    /\ call.pc = "idle"
    /\ f \in sockets
    /\ LET res == set_cloexec_result(fds, f, close_on_exec)
           tab == set_cloexec_table(fds, f, close_on_exec)
       IN
       /\ fds' = tab
       /\ last' = [Returned("set_cloexec", f, res) EXCEPT !.flag = close_on_exec]
    /\ log' = <<>>
    /\ UNCHANGED <<objs, sockets, call>>

\* fcntl(fd, F_GETFD): the descriptor flags, or -1
fcntl_getfd(tab, f) ==
    IF f \in Fds /\ tab[f].open
    THEN [ret |-> 0, flags |-> IF tab[f].cloexec THEN {"FD_CLOEXEC"} ELSE {}]
    ELSE [ret |-> -1, flags |-> {}]

\* Ok(bool): the boolean in the value of a result
Bool(b) == Some(IF b THEN 1 ELSE 0)

\* `-1 => Err(last_os_error()), flags => Ok(flags & FD_CLOEXEC != 0)`
is_cloexec_result(tab, f) ==
    LET got == fcntl_getfd(tab, f) IN
    IF got.ret = -1
    THEN Err(last_os_error("EBADF"))
    ELSE Ok(Bool(got.flags \cap {"FD_CLOEXEC"} # {}))

is_cloexec(f) ==
    /\ call.pc = "idle"
    /\ f \in sockets
    /\ LET res == is_cloexec_result(fds, f) IN
       last' = [Returned("is_cloexec", f, res)
                   EXCEPT !.flag = (res.val = Bool(TRUE))]
    /\ log' = <<>>
    /\ UNCHANGED <<fds, objs, sockets, call>>

-----------------------------------------------------------------------------
(* The checksum coverage options. *)

\* the payload counts the setters are called with
CoverageArgs == { None, Some(0), Some(65527), Some(65528) }
\* what a descriptor that is no UDP-Lite socket may leave in the value buffer
WireSamples == { -1, 0, 1, 7, 8, 65535, 65536 }

\* (mutant) the header length is not added
encode_coverage_no_header(coverage) ==
    IF coverage.some THEN coverage.v ELSE 0

\* `Some(payload) => payload as c_int + 8, None => 0`
encode_coverage(coverage) ==
    IF coverage.some THEN coverage.v + HeaderLen ELSE 0

\* setsockopt(fd, IPPROTO_UDPLITE, UDPLITE_*_CSCOV, &coverage): the outcomes
\* the kernel may give, each with the value it then holds. A UDP-Lite socket
\* stores the value; one above the 16-bit range it either stores as the
\* largest or refuses. Any other descriptor refuses the option.
setsockopt_outcomes(f, held, wire) ==
    IF ~Valid(f) THEN { [ret |-> -1, errno |-> "EBADF", held |-> held] }
    ELSE IF objs[fds[f].obj].kind # "udplite"
    THEN { [ret |-> -1, errno |-> "ENOPROTOOPT", held |-> held] }
    ELSE IF wire > MaxWire
    THEN { [ret |-> 0, errno |-> "", held |-> MaxWire],
           [ret |-> -1, errno |-> "EINVAL", held |-> held] }
    ELSE IF wire \in 1..(HeaderLen - 1)
    THEN { [ret |-> 0, errno |-> "", held |-> HeaderLen] }
    ELSE { [ret |-> 0, errno |-> "", held |-> wire] }

\* `match ret { -1 => Err(last_os_error()), _ => Ok(()) }`
setter_result(ret, errno) ==
    IF ret = -1 THEN Err(last_os_error(errno)) ELSE Ok(None)

\* getsockopt(fd, IPPROTO_UDPLITE, UDPLITE_*_CSCOV, &mut coverage): the
\* outcomes, each with the content of the buffer, which starts as -1. A
\* UDP-Lite socket gives the value held; what any other descriptor gives is
\* unspecified.
getsockopt_outcomes(f, held) ==
    IF ~Valid(f) THEN { [ret |-> -1, errno |-> "EBADF", coverage |-> -1] }
    ELSE IF objs[fds[f].obj].kind # "udplite"
    THEN { [ret |-> 0, errno |-> "", coverage |-> w] : w \in WireSamples }
         \cup { [ret |-> -1, errno |-> "ENOPROTOOPT", coverage |-> w] :
                   w \in {-1, 8} }
    ELSE { [ret |-> 0, errno |-> "", coverage |-> held] }

\* `coverage as u16 - 8`
as_u16(n) == n % 65536

\* (mutant) the arm for 1..=7 is missing
decode_send_no_partial_arm(ret, coverage, errno) ==
    IF ret = 0 /\ coverage = 0 THEN Ok(None)
    ELSE IF ret = 0 /\ coverage \in HeaderLen..MaxWire
    THEN Ok(Some(as_u16(coverage) - HeaderLen))
    ELSE IF ret = 0
    THEN Err(NewError("InvalidData",
                      "Returned coverage is outside of valid range (for IPv6)"))
    ELSE IF ret = -1 THEN Err(last_os_error(errno))
    ELSE Err(NewError("InvalidData",
                      "Unexpected return value from getsockopt()"))

\* the match of send_checksum_coverage
decode_send(ret, coverage, errno) ==
    IF ret = 0 /\ coverage = 0 THEN Ok(None)
    ELSE IF ret = 0 /\ coverage \in HeaderLen..MaxWire
    THEN Ok(Some(as_u16(coverage) - HeaderLen))
    ELSE IF ret = 0 /\ coverage \in 1..(HeaderLen - 1)
    THEN Err(NewError("InvalidData",
                      "Returned coverage only partially covers header"))
    ELSE IF ret = 0
    THEN Err(NewError("InvalidData",
                      "Returned coverage is outside of valid range (for IPv6)"))
    ELSE IF ret = -1 THEN Err(last_os_error(errno))
    ELSE Err(NewError("InvalidData",
                      "Unexpected return value from getsockopt()"))

\* (mutant) the arms on the value come before the arm on the failure
decode_recv_value_first(ret, coverage, errno) ==
    IF coverage = 0 THEN Ok(None)
    ELSE IF coverage \in HeaderLen..MaxWire
    THEN Ok(Some(as_u16(coverage) - HeaderLen))
    ELSE IF ret = 0
    THEN Err(NewError("InvalidData",
                      "Returned coverage is outside of valid range"))
    ELSE IF ret = -1 THEN Err(last_os_error(errno))
    ELSE Err(NewError("InvalidData",
                      "Unexpected return value from getsockopt()"))

\* the match of recv_checksum_coverage_filter
decode_recv(ret, coverage, errno) ==
    IF ret = 0 /\ coverage = 0 THEN Ok(None)
    ELSE IF ret = 0 /\ coverage \in HeaderLen..MaxWire
    THEN Ok(Some(as_u16(coverage) - HeaderLen))
    ELSE IF ret = 0
    THEN Err(NewError("InvalidData",
                      "Returned coverage is outside of valid range"))
    ELSE IF ret = -1 THEN Err(last_os_error(errno))
    ELSE Err(NewError("InvalidData",
                      "Unexpected return value from getsockopt()"))

Obj(f) == fds[f].obj
HeldSend(f) == IF Valid(f) THEN objs[Obj(f)].send ELSE 0
HeldRecv(f) == IF Valid(f) THEN objs[Obj(f)].recv ELSE 0

set_send_checksum_coverage(f, coverage) ==
    /\ call.pc = "idle"
    /\ f \in sockets
    /\ \E out \in setsockopt_outcomes(f, HeldSend(f),
                                      encode_coverage(coverage)) :
         LET res == setter_result(out.ret, out.errno) IN
         /\ objs' = IF Valid(f)
                    THEN [objs EXCEPT ![Obj(f)].send = out.held]
                    ELSE objs
         /\ last' = [Returned("set_send_checksum_coverage", f, res)
                        EXCEPT !.arg = coverage, !.ret = out.ret,
                               !.wire = encode_coverage(coverage)]
    /\ log' = <<>>
    /\ UNCHANGED <<fds, sockets, call>>

\* what send_checksum_coverage may return on f in the current state
send_checksum_coverage_results(f) ==
    { [out |-> out, res |-> decode_send(out.ret, out.coverage, out.errno)] :
         out \in getsockopt_outcomes(f, HeldSend(f)) }

send_checksum_coverage(f) ==
    /\ call.pc = "idle"
    /\ f \in sockets
    /\ \E r \in send_checksum_coverage_results(f) :
         last' = [Returned("send_checksum_coverage", f, r.res)
                     EXCEPT !.ret = r.out.ret, !.wire = r.out.coverage]
    /\ log' = <<>>
    /\ UNCHANGED <<fds, objs, sockets, call>>

set_recv_checksum_coverage_filter(f, coverage) ==
    /\ call.pc = "idle"
    /\ f \in sockets
    /\ \E out \in setsockopt_outcomes(f, HeldRecv(f),
                                      encode_coverage(coverage)) :
         LET res == setter_result(out.ret, out.errno) IN
         /\ objs' = IF Valid(f)
                    THEN [objs EXCEPT ![Obj(f)].recv = out.held]
                    ELSE objs
         /\ last' = [Returned("set_recv_checksum_coverage_filter", f, res)
                        EXCEPT !.arg = coverage, !.ret = out.ret,
                               !.wire = encode_coverage(coverage)]
    /\ log' = <<>>
    /\ UNCHANGED <<fds, sockets, call>>

\* what recv_checksum_coverage_filter may return on f in the current state
recv_checksum_coverage_filter_results(f) ==
    { [out |-> out, res |-> decode_recv(out.ret, out.coverage, out.errno)] :
         out \in getsockopt_outcomes(f, HeldRecv(f)) }

recv_checksum_coverage_filter(f) ==
    /\ call.pc = "idle"
    /\ f \in sockets
    /\ \E r \in recv_checksum_coverage_filter_results(f) :
         last' = [Returned("recv_checksum_coverage_filter", f, r.res)
                     EXCEPT !.ret = r.out.ret, !.wire = r.out.coverage]
    /\ log' = <<>>
    /\ UNCHANGED <<fds, objs, sockets, call>>

-----------------------------------------------------------------------------
(* The data path, which UdpSocket provides through Deref. *)

\* recvfrom(): takes the pending datagram; with none pending it fails at
\* once on a non-blocking socket and waits on a blocking one
recv_from_result(f, pending) ==
    IF ~Valid(f)
    THEN [waits |-> FALSE, res |-> Err(last_os_error("EBADF"))]
    ELSE IF pending THEN [waits |-> FALSE, res |-> Ok(None)]
    ELSE IF objs[Obj(f)].nonblocking
    THEN [waits |-> FALSE, res |-> Err(last_os_error("EAGAIN"))]
    ELSE [waits |-> TRUE, res |-> Ok(None)]

\* UdpSocket::recv_from through Deref; pending: whether a datagram is queued
recv_from(f, pending) ==
    /\ call.pc = "idle"
    /\ f \in sockets
    /\ ~recv_from_result(f, pending).waits
    /\ last' = [Returned("recv_from", f, recv_from_result(f, pending).res)
                   EXCEPT !.flag = pending]
    /\ log' = <<>>
    /\ UNCHANGED <<fds, objs, sockets, call>>

-----------------------------------------------------------------------------
(* Specifications. *)

\* bind, bind_nonblocking and the data path
NextBind ==
    \/ \E spec \in AddrSpecs : bind(spec)
    \/ \E spec \in AddrSpecs : bind_nonblocking(spec)
    \/ try_bind_socket
    \/ try_bind_loop
    \/ \E f \in sockets : drop(f)
    \/ \E f \in sockets, pending \in BOOLEAN : recv_from(f, pending)

SpecBind == Init /\ [][NextBind]_vars

\* the thread that called bind goes on running: a call under way takes its
\* next step; what the system calls return is not constrained
SpecBindFair ==
    SpecBind /\ WF_vars(try_bind_socket) /\ WF_vars(try_bind_loop)

\* an address specification of one candidate
OneAddr == { [ok |-> TRUE, addrs |-> <<a>>] : a \in Addresses }

\* the descriptors and their close-on-exec flag
NextFd ==
    \/ \E spec \in OneAddr : bind(spec)
    \/ try_bind_socket
    \/ try_bind_loop
    \/ \E f \in sockets : drop(f)
    \/ \E cloexec \in BOOLEAN : caller_opens("other", cloexec)
    \/ \E f \in Fds \cup {BadFd} : from_raw_fd(f)
    \/ \E f \in sockets : as_raw_fd(f)
    \/ \E f \in sockets : into_raw_fd(f)
    \/ \E f \in sockets : try_clone(f)
    \/ \E f \in sockets, b \in BOOLEAN : set_cloexec(f, b)
    \/ \E f \in sockets : is_cloexec(f)

SpecFd == Init /\ [][NextFd]_vars

\* the coverage options of UDP-Lite sockets
NextCov ==
    \/ \E spec \in OneAddr : bind(spec)
    \/ try_bind_socket
    \/ try_bind_loop
    \/ \E f \in sockets : drop(f)
    \/ \E f \in sockets : try_clone(f)
    \/ \E f \in sockets, c \in CoverageArgs : set_send_checksum_coverage(f, c)
    \/ \E f \in sockets : send_checksum_coverage(f)
    \/ \E f \in sockets, c \in CoverageArgs :
          set_recv_checksum_coverage_filter(f, c)
    \/ \E f \in sockets : recv_checksum_coverage_filter(f)

SpecCov == Init /\ [][NextCov]_vars

\* the coverage options of adopted descriptors
NextAdopt ==
    \/ \E kind \in {"udplite", "other"} : caller_opens(kind, TRUE)
    \/ \E f \in Fds \cup {BadFd} : from_raw_fd(f)
    \/ \E f \in sockets : drop(f)
    \/ \E f \in sockets, c \in CoverageArgs : set_send_checksum_coverage(f, c)
    \/ \E f \in sockets : send_checksum_coverage(f)
    \/ \E f \in sockets, c \in CoverageArgs :
          set_recv_checksum_coverage_filter(f, c)
    \/ \E f \in sockets : recv_checksum_coverage_filter(f)

SpecAdopt == Init /\ [][NextAdopt]_vars

Next ==
    \/ NextBind
    \/ NextFd
    \/ NextCov
    \/ NextAdopt

Spec == Init /\ [][Next]_vars

-----------------------------------------------------------------------------
(* The claims. *)

\* an error as a reader of the documentation tells the decode failures apart
Failure(err) ==
    IF err.kind # "InvalidData" THEN "os error"
    ELSE IF err.msg = "Returned coverage only partially covers header"
    THEN "only partially covers the header"
    ELSE IF err.msg \in { "Returned coverage is outside of valid range (for IPv6)",
                          "Returned coverage is outside of valid range" }
    THEN "outside valid range"
    ELSE "unexpected return value"

\* Option<u16> values of 0..=0xFFF7, and None
InRoundTripRange(c) == ~c.some \/ c.v \in 0..(MaxWire - HeaderLen)

\* C1: on a UDP-Lite socket a setter called with None or with Some(n),
\* 0 <= n <= 0xFFF7, succeeds, and the getter called next returns exactly the
\* value set; for the send coverage and for the receive filter alike.
C1_SetThenGet ==
    /\ last.op = "set_send_checksum_coverage" /\ InRoundTripRange(last.arg)
         => /\ last.ok
            /\ { r.res : r \in send_checksum_coverage_results(last.fd) }
                  = { Ok(last.arg) }
    /\ last.op = "set_recv_checksum_coverage_filter" /\ InRoundTripRange(last.arg)
         => /\ last.ok
            /\ { r.res : r \in recv_checksum_coverage_filter_results(last.fd) }
                  = { Ok(last.arg) }

\* the getter has returned the largest value, set before, while the other
\* option of the same socket holds another value
C1_Witness ==
    /\ last.op = "recv_checksum_coverage_filter"
    /\ last.ok /\ last.val = Some(65527)
    /\ HeldSend(last.fd) = HeaderLen

\* C2: when getsockopt succeeds, send_checksum_coverage decodes the integer
\* w it gave as: 0 is None; 8..0xFFFF is Some(w - 8); 1..7 is the failure
\* "only partially covers the header"; anything else is the failure
\* "outside valid range".
C2_SendDecode ==
    last.op = "send_checksum_coverage" /\ last.ret = 0 =>
        LET w == last.wire IN
        /\ w = 0 => last.ok /\ last.val = None
        /\ w >= 8 /\ w <= 65535 => last.ok /\ last.val = Some(w - 8)
        /\ w >= 1 /\ w <= 7 =>
              /\ ~last.ok
              /\ Failure(last.err) = "only partially covers the header"
        /\ w < 0 \/ w > 65535 =>
              /\ ~last.ok
              /\ Failure(last.err) = "outside valid range"

C2_Witness ==
    /\ last.op = "send_checksum_coverage" /\ last.ret = 0
    /\ last.wire = 7 /\ ~last.ok

\* C3: recv_checksum_coverage_filter decodes every wire value getsockopt
\* gave as send_checksum_coverage does: the same value, or the same failure;
\* 1..7 is "only partially covers the header".
C3_RecvDecodesAsSend ==
    last.op = "recv_checksum_coverage_filter" /\ last.ret = 0 =>
        LET s == decode_send(0, last.wire, "") IN
        /\ last.ok = s.ok
        /\ last.val = s.val
        /\ Failure(last.err) = Failure(s.err)

-----------------------------------------------------------------------------
(* bind: the claims read the log of system calls the call has made. *)

\* the entry that ended the attempt on a candidate in failure
Terminal(e) == e.sys \in {"socket", "bind"} /\ e.errno \notin {"", "EINTR"}
\* the entry of a bind() that succeeded
Succeeded(e) == e.sys = "bind" /\ e.errno = ""
BindReturned == last.op = "bind" /\ last.cands >= 1

\* C4 as amended: bind over an address specification that resolves to no
\* candidate fails with the invalid-input error "could not resolve to any
\* addresses", and makes no system call, so that no socket is created.
C4_NoCandidates ==
    last.op = "bind" /\ last.cands = 0 =>
        /\ ~last.ok
        /\ last.err = [kind |-> "InvalidInput",
                       msg |-> "could not resolve to any addresses"]
        /\ log = <<>>

\* C4 as claimed: the message of the error is "no addresses to bind to".
C4_AsClaimed ==
    last.op = "bind" /\ last.cands = 0 =>
        /\ ~last.ok
        /\ last.err = [kind |-> "InvalidInput",
                       msg |-> "no addresses to bind to"]
        /\ log = <<>>

\* bind over no candidate has returned while a socket bound before is open
C4_Witness ==
    /\ last.op = "bind" /\ last.cands = 0 /\ ~last.ok
    /\ sockets # {}

\* C5: the candidates are attempted in the order of resolution, one after
\* the failure of the one before and none after a success; bind returns the
\* socket of the first that succeeds, and when all have failed the error of
\* the last, which is not the error it started from.
C5_InOrder ==
    /\ \A i \in 1..Len(log) :
          /\ i = 1 => log[i].cand = 1
          /\ i > 1 =>
                \/ log[i].cand = log[i-1].cand
                \/ /\ log[i].cand = log[i-1].cand + 1
                   /\ \E j \in 1..(i-1) :
                         log[j].cand = log[i-1].cand /\ Terminal(log[j])
          /\ Succeeded(log[i]) => i = Len(log)
          /\ call.pc # "idle" =>
                log[i].addr = rust_addr_to_sockaddr(call.addrs[log[i].cand])
    /\ BindReturned /\ last.ok =>
          /\ log # <<>>
          /\ Succeeded(log[Len(log)])
          /\ last.fd = log[Len(log)].fd
          /\ \A k \in 1..(log[Len(log)].cand - 1) :
                \E j \in 1..Len(log) : log[j].cand = k /\ Terminal(log[j])
    /\ BindReturned /\ ~last.ok =>
          /\ \A k \in 1..last.cands :
                \E j \in 1..Len(log) : log[j].cand = k /\ Terminal(log[j])
          /\ \E j \in 1..Len(log) :
                /\ log[j].cand = last.cands /\ Terminal(log[j])
                /\ last.err = last_os_error(log[j].errno)
          /\ last.err # NoAddrsError

\* both candidates have failed, with different errors
C5_Witness ==
    /\ BindReturned /\ ~last.ok /\ last.cands = 2
    /\ \E j \in 1..Len(log) :
          log[j].cand = 1 /\ Terminal(log[j]) /\ log[j].errno # last.err.msg

\* C6: a bind() that fails with EINTR is followed by another bind() on the
\* same descriptor and address, and EINTR is never the error returned; a
\* bind() that fails with another error is the last on its candidate, the
\* descriptor is closed, and that error is the candidate's; after a socket()
\* that fails there is no bind() for the candidate.
C6_Retry ==
    /\ \A i \in 1..Len(log) :
          LET e == log[i] IN
          /\ e.sys = "bind" /\ e.errno = "EINTR" =>
                IF i < Len(log)
                THEN /\ log[i+1].sys = "bind"
                     /\ log[i+1].fd = e.fd
                     /\ log[i+1].cand = e.cand
                     /\ log[i+1].addr = e.addr
                ELSE call.pc = "bind" /\ call.fd = e.fd /\ call.i = e.cand
          /\ e.sys = "bind" /\ Terminal(e) =>
                /\ i < Len(log)
                /\ log[i+1].sys = "close" /\ log[i+1].fd = e.fd
                /\ \A j \in (i+1)..Len(log) :
                      ~(log[j].sys = "bind" /\ log[j].cand = e.cand)
          /\ e.sys = "socket" /\ e.errno # "" =>
                /\ \A j \in 1..Len(log) :
                      ~(log[j].sys = "bind" /\ log[j].cand = e.cand)
                /\ i < Len(log) =>
                      log[i+1].sys = "socket" /\ log[i+1].cand = e.cand + 1
          /\ Terminal(e) /\ BindReturned /\ e.cand = last.cands =>
                ~last.ok /\ last.err = last_os_error(e.errno)
    /\ last.op = "bind" /\ ~last.ok => last.err.kind # "Interrupted"

\* bind has returned a socket whose bind() was interrupted first
C6_Witness ==
    /\ BindReturned /\ last.ok
    /\ \E i \in 1..Len(log) :
          log[i].sys = "bind" /\ log[i].errno = "EINTR" /\ log[i].fd = last.fd

-----------------------------------------------------------------------------
(* Close-on-exec. *)

\* C7: a descriptor that bind creates has close-on-exec set in the step that
\* creates it, keeps it while bind() is tried and retried, and has it when
\* bind returns, so that is_cloexec() then returns true; an open descriptor
\* loses the flag only in a successful set_cloexec(false) on it.
C7_CloexecFromCreation ==
    /\ [](/\ call.pc = "bind" =>
                fds[call.fd].open /\ fds[call.fd].cloexec
          /\ last.op = "bind" /\ last.ok =>
                is_cloexec_result(fds, last.fd) = Ok(Bool(TRUE)))
    /\ [][\A f \in Fds :
            /\ call.pc = "socket" /\ ~fds[f].open /\ fds'[f].open
                  => fds'[f].cloexec
            /\ fds[f].open /\ fds[f].cloexec /\ fds'[f].open /\ ~fds'[f].cloexec
                  => /\ last'.op = "set_cloexec" /\ last'.fd = f
                     /\ last'.ok /\ ~last'.flag]_vars

\* between socket() and the bind() that follows an interrupted one
C7_Witness ==
    /\ call.pc = "bind" /\ call.eintr > 0
    /\ fds[call.fd].open /\ fds[call.fd].cloexec

\* C8: the descriptor try_clone returns is another descriptor and has
\* close-on-exec set, whatever the flag of the original; set_cloexec changes
\* no descriptor but the one it is called on.
C8_CloneCloexec ==
    /\ [](last.op = "try_clone" /\ last.ok =>
             /\ last.n # last.fd
             /\ last.n \in sockets
             /\ fds[last.n].open /\ fds[last.n].cloexec
             /\ fds[last.n].obj = fds[last.fd].obj)
    /\ [][last'.op = "set_cloexec" =>
             \A g \in Fds \ {last'.fd} : fds'[g] = fds[g]]_vars

\* a clone of a socket whose close-on-exec had been disabled
C8_Witness ==
    /\ last.op = "try_clone" /\ last.ok
    /\ ~fds[last.fd].cloexec
    /\ fds[last.n].cloexec

\* C9 as amended: after a successful set_cloexec(b), is_cloexec() returns b,
\* and goes on returning it until the next successful set_cloexec on the
\* descriptor; before any, it returns true for a socket that bind or
\* try_clone returned; is_cloexec reports the flag of the descriptor; a
\* second set_cloexec(b) succeeds and leaves the descriptor table as the
\* first left it.
C9_SetThenIs ==
    /\ [](/\ last.op = "set_cloexec" /\ last.ok =>
                is_cloexec_result(fds, last.fd) = Ok(Bool(last.flag))
          /\ last.op = "is_cloexec" /\ last.ok =>
                last.flag = fds[last.fd].cloexec
          /\ last.op = "bind" /\ last.ok =>
                is_cloexec_result(fds, last.fd) = Ok(Bool(TRUE))
          /\ last.op = "try_clone" /\ last.ok =>
                is_cloexec_result(fds, last.n) = Ok(Bool(TRUE))
          /\ \A f \in sockets, b \in BOOLEAN :
                LET once == set_cloexec_table(fds, f, b) IN
                set_cloexec_result(fds, f, b).ok =>
                   /\ set_cloexec_result(once, f, b).ok
                   /\ set_cloexec_table(once, f, b) = once)
    /\ [][\A f \in Fds :
            fds[f].open /\ fds'[f].open /\ fds'[f].cloexec # fds[f].cloexec
               => /\ last'.op = "set_cloexec" /\ last'.fd = f
                  /\ last'.ok /\ last'.flag = fds'[f].cloexec]_vars

\* C9 as claimed: is_cloexec() returns true on every valid socket on which
\* set_cloexec has not been called, so on one made by from_raw_fd from a
\* descriptor the caller has just obtained.
C9_AsClaimed ==
    [][last.op = "caller opens" /\ last'.op = "from_raw_fd"
          /\ last'.fd = last.fd
          => is_cloexec_result(fds', last'.fd) = Ok(Bool(TRUE))]_vars

\* set_cloexec(false) has succeeded on one of two descriptors of a socket
C9_Witness ==
    /\ last.op = "set_cloexec" /\ last.ok /\ ~last.flag
    /\ \E g \in sockets \ {last.fd} :
          Valid(g) /\ fds[g].obj = fds[last.fd].obj /\ fds[g].cloexec

-----------------------------------------------------------------------------
(* bind_nonblocking. *)

\* what bind returns, from the candidates and the system calls it made
ExpectedOfBind ==
    IF last.cands = -1 THEN [ok |-> FALSE, fd |-> 0, err |-> ResolveError]
    ELSE IF last.cands = 0 THEN [ok |-> FALSE, fd |-> 0, err |-> NoAddrsError]
    ELSE IF log # <<>> /\ Succeeded(log[Len(log)])
    THEN [ok |-> TRUE, fd |-> log[Len(log)].fd, err |-> NoError]
    ELSE LET j == CHOOSE j \in 1..Len(log) :
                     /\ Terminal(log[j])
                     /\ \A k \in (j+1)..Len(log) : ~Terminal(log[k])
         IN [ok |-> FALSE, fd |-> 0, err |-> last_os_error(log[j].errno)]

\* C10: a socket bind_nonblocking returns is non-blocking: recv_from on it
\* with no datagram pending fails at once with WouldBlock; and
\* bind_nonblocking returns what bind returns for the same candidates and
\* the same results of the system calls, never a would-block error.
C10_Nonblocking ==
    /\ last.op = "bind" /\ last.flag /\ last.ok =>
          /\ objs[Obj(last.fd)].nonblocking
          /\ ~recv_from_result(last.fd, FALSE).waits
          /\ recv_from_result(last.fd, FALSE).res.err.kind = "WouldBlock"
    /\ last.op = "recv_from" /\ Valid(last.fd) /\ ~last.flag =>
          /\ objs[Obj(last.fd)].nonblocking
          /\ ~last.ok /\ last.err.kind = "WouldBlock"
    /\ last.op = "bind" =>
          /\ [ok |-> last.ok, fd |-> last.fd, err |-> last.err] = ExpectedOfBind
          /\ last.err.kind # "WouldBlock"
          /\ last.err.msg \notin {"EAGAIN", "EINPROGRESS"}

\* recv_from has failed with WouldBlock on a socket, no datagram pending
C10_Witness ==
    /\ last.op = "recv_from" /\ ~last.flag
    /\ ~last.ok /\ last.err.kind = "WouldBlock"

-----------------------------------------------------------------------------
(* Ownership of descriptors. *)

\* C11: a descriptor a UdpLiteSocket value owns is open, and the one try_bind
\* is working on is open and owned by no other value; a descriptor is closed
\* only as its owner ends (drop, or the failure path of try_bind), and no
\* other descriptor with it; a descriptor is opened only by socket() in
\* try_bind, by a successful try_clone, which owns it, or by the caller;
\* an owned descriptor leaves its owner open only in into_raw_fd, which
\* returns its number and changes no descriptor; as_raw_fd returns the
\* number and changes neither the descriptors nor who owns them.
C11_Ownership ==
    /\ [](/\ \A f \in sockets : f = BadFd \/ Valid(f)
          /\ call.pc = "bind" => Valid(call.fd) /\ call.fd \notin sockets
          /\ last.op = "as_raw_fd" => last.n = last.fd /\ last.fd \in sockets
          /\ last.op = "into_raw_fd" =>
                /\ last.n = last.fd /\ last.fd \notin sockets
                /\ last.fd = BadFd \/ Valid(last.fd))
    /\ [][/\ \A f \in Fds :
               /\ fds[f].open /\ ~fds'[f].open =>
                     /\ \A g \in Fds \ {f} : fds'[g] = fds[g]
                     /\ \/ /\ f \in sockets /\ f \notin sockets'
                           /\ last'.op = "drop" /\ last'.fd = f
                        \/ /\ call.pc = "bind" /\ call.fd = f
                           /\ call'.pc # "bind" /\ sockets' = sockets
               /\ ~fds[f].open /\ fds'[f].open =>
                     /\ \A g \in Fds \ {f} : fds'[g] = fds[g]
                     /\ \/ /\ call.pc = "socket"
                           /\ call'.pc = "bind" /\ call'.fd = f
                           /\ sockets' = sockets
                        \/ /\ last'.op = "try_clone" /\ last'.ok /\ last'.n = f
                           /\ last'.fd \in sockets
                           /\ sockets' = sockets \cup {f}
                        \/ /\ last'.op = "caller opens" /\ last'.fd = f
                           /\ sockets' = sockets
               /\ f \in sockets /\ f \notin sockets' /\ fds'[f].open =>
                     /\ last'.op = "into_raw_fd" /\ last'.n = f
                     /\ fds' = fds /\ objs' = objs
               /\ f \notin sockets /\ f \in sockets' /\ fds[f].open =>
                     /\ fds' = fds
                     /\ \/ /\ call.pc = "bind" /\ call.fd = f
                           /\ last'.op = "bind" /\ last'.ok /\ last'.fd = f
                        \/ last'.op = "from_raw_fd" /\ last'.fd = f
          /\ last'.op = "as_raw_fd" =>
                fds' = fds /\ objs' = objs /\ sockets' = sockets]_vars

\* into_raw_fd has given away a descriptor, which is open and owned by no
\* socket value, while another descriptor of the same socket is still owned
C11_Witness ==
    /\ last.op = "into_raw_fd" /\ Valid(last.n) /\ last.n \notin sockets
    /\ \E g \in sockets : Valid(g) /\ fds[g].obj = fds[last.n].obj

-----------------------------------------------------------------------------
(* Clones. *)

\* the other descriptors socket values own of the socket f refers to
Clones(f) ==
    { g \in sockets \ {f} : Valid(g) /\ Valid(f) /\ fds[g].obj = fds[f].obj }

\* C12: the descriptor try_clone returns is another descriptor of the same
\* UDP-Lite socket; after a setter has succeeded through one descriptor with
\* None or Some(n), 0 <= n <= 0xFFF7, the getter through any other descriptor
\* of the socket returns that value, and at all times the getters return the
\* same through all descriptors of a socket; dropping one descriptor leaves
\* every other open, on the same UDP-Lite socket with the coverage values it
\* held.
C12_CloneShares ==
    /\ [](/\ last.op = "try_clone" /\ last.ok =>
                /\ last.n # last.fd /\ last.n \in Clones(last.fd)
                /\ objs[Obj(last.n)].kind = "udplite"
          /\ last.op = "set_send_checksum_coverage" /\ last.ok
                /\ InRoundTripRange(last.arg) =>
                \A g \in Clones(last.fd) :
                   \A r \in send_checksum_coverage_results(g) :
                      r.res = Ok(last.arg)
          /\ last.op = "set_recv_checksum_coverage_filter" /\ last.ok
                /\ InRoundTripRange(last.arg) =>
                \A g \in Clones(last.fd) :
                   \A r \in recv_checksum_coverage_filter_results(g) :
                      r.res = Ok(last.arg)
          /\ \A f \in sockets : \A g \in Clones(f) :
                /\ send_checksum_coverage_results(g)
                      = send_checksum_coverage_results(f)
                /\ recv_checksum_coverage_filter_results(g)
                      = recv_checksum_coverage_filter_results(f))
    /\ [][last'.op = "drop" =>
             \A g \in sockets \ {last'.fd} :
                /\ g \in sockets'
                /\ fds'[g] = fds[g] /\ fds[g].open
                /\ objs'[fds'[g].obj] = objs[fds[g].obj]
                /\ objs'[fds'[g].obj].kind = "udplite"]_vars

\* a coverage has been set through one descriptor of a socket that has
\* another, and the kernel holds the encoded value for both
C12_Witness ==
    /\ last.op = "set_send_checksum_coverage" /\ last.ok /\ last.arg.some
    /\ Clones(last.fd) # {}
    /\ \A g \in Clones(last.fd) : HeldSend(g) = last.arg.v + HeaderLen

-----------------------------------------------------------------------------
(* Descriptors of a bind call. *)

OpenFds == { f \in Fds : fds[f].open }
\* the positions in the log of the socket() calls that gave a descriptor
Created == { i \in 1..Len(log) : log[i].sys = "socket" /\ log[i].errno = "" }
\* the descriptor of log[i] is closed before the log goes on to another
ClosedAgain(i) ==
    \E j \in (i+1)..Len(log) :
       /\ log[j].sys = "close" /\ log[j].fd = log[i].fd
       /\ \A k \in (i+1)..(j-1) : log[k].sys = "bind" /\ log[k].fd = log[i].fd

\* C13: where bind and drop are the operations, the open descriptors are
\* those of the live sockets and, while try_bind holds one, that one; so
\* when bind returns an error every descriptor it created is closed again,
\* and when it returns a socket the one descriptor it created that is still
\* open is the socket's; and no kernel socket is left without a descriptor.
C13_NoLeak ==
    /\ call.pc \in {"idle", "socket"} => OpenFds = sockets
    /\ call.pc = "bind" => OpenFds = sockets \cup {call.fd}
                           /\ call.fd \notin sockets
    /\ \A o \in Fds : objs[o].kind # "free" =>
          \E f \in OpenFds : fds[f].obj = o
    /\ BindReturned /\ ~last.ok => \A i \in Created : ClosedAgain(i)
    /\ BindReturned /\ last.ok =>
          /\ last.fd \in OpenFds /\ last.fd \in sockets
          /\ \E i \in Created :
                /\ log[i].fd = last.fd /\ ~ClosedAgain(i)
                /\ \A j \in Created \ {i} : ClosedAgain(j)

\* bind has failed after it created and closed a descriptor for each of two
\* candidates, and what is open is what was before
C13_Witness ==
    /\ BindReturned /\ ~last.ok
    /\ Cardinality(Created) = 2
    /\ \A i \in Created : ClosedAgain(i)
    /\ OpenFds = sockets

-----------------------------------------------------------------------------
(* Termination of bind. *)

\* C14: every call of bind returns, whatever the system calls give, even
\* bind() interrupted again and again; so the turns of the loop of try_bind
\* on one candidate are bounded.
C14_BindReturns == (call.pc # "idle") ~> (call.pc = "idle")

-----------------------------------------------------------------------------
(* Failures of the option system calls. *)

Getters == { "send_checksum_coverage", "recv_checksum_coverage_filter" }
Setters == { "set_send_checksum_coverage",
             "set_recv_checksum_coverage_filter" }
\* the errors getsockopt() and setsockopt() fail with in the model
OptionErrnos == { "EBADF", "ENOPROTOOPT", "EINVAL" }

\* C15: when getsockopt() or setsockopt() has failed, the getter or setter
\* returns the error of the system call, not a success and not a decode
\* error, whatever the buffer holds; a getter returns a decode error only
\* when getsockopt() has succeeded, and a setter returns none; a setter that
\* fails leaves the coverage values the kernel holds as they were.
C15_OsErrorAsIs ==
    /\ [](/\ \A w \in WireSamples, e \in OptionErrnos :
                /\ decode_send(-1, w, e) = Err(last_os_error(e))
                /\ decode_recv(-1, w, e) = Err(last_os_error(e))
                /\ setter_result(-1, e) = Err(last_os_error(e))
                /\ decode_send(0, w, "").err.kind \in {"", "InvalidData"}
                /\ decode_recv(0, w, "").err.kind \in {"", "InvalidData"}
          /\ last.op \in Getters \cup Setters /\ last.ret = -1 =>
                /\ ~last.ok
                /\ last.err.msg \in OptionErrnos
                /\ last.err = last_os_error(last.err.msg)
                /\ last.err.kind # "InvalidData"
          /\ last.op \in Getters /\ last.err.kind = "InvalidData" =>
                ~last.ok /\ last.ret = 0
          /\ last.op \in Getters /\ last.ok => last.ret = 0
          /\ last.op \in Setters => last.err.kind # "InvalidData"
          /\ last.op \in Setters => (last.ok <=> last.ret = 0))
    /\ [][last'.op \in Setters /\ ~last'.ok => objs' = objs]_vars

\* getsockopt() has failed on the receive filter with a buffer that would
\* decode to a coverage
C15_Witness ==
    /\ last.op = "recv_checksum_coverage_filter"
    /\ last.ret = -1 /\ last.wire = HeaderLen
    /\ ~last.ok /\ last.err.msg = "ENOPROTOOPT"

====
